---- MODULE Spec2Model ----
(***************************************************************************)
(* Redmerce chat client: the conversation session kept by ChatPage, the    *)
(* reply classification done in handleInitialSearch / handleFollowUp, the  *)
(* ChatInterface input box and the HomePage search box; and the saved     *)
(* items kept in localStorage by ProductRecommendation and SavedItems,     *)
(* with the badge count of App, in two tabs of one browser.                *)
(*                                                                         *)
(* React state updates made in one synchronous stretch of a handler are    *)
(* applied together, so every handler is split at its single await: the    *)
(* part before the await is one action, the part after it (the settlement  *)
(* of the fetch) is another.  Message timestamps are not modelled.         *)
(***************************************************************************)
EXTENDS Integers, Sequences, FiniteSets, TLC

(* ------------------------------ bounds -------------------------------- *)

\* backend calls dispatched in one run, over all chat sessions
MaxCalls == 3

(* --------------------------- JavaScript values ------------------------ *)

\* A JavaScript value: its type tag t, its text s (strings, numbers and
\* booleans) and its items a (arrays; an item is a product, named).
Val(t, s, a) == [t |-> t, s |-> s, a |-> a]

Undef == Val("undefined", "", <<>>)

Null == Val("null", "", <<>>)

Str(s) == Val("string", s, <<>>)

Num(s) == Val("number", s, <<>>)

Bool(s) == Val("boolean", s, <<>>)

Arr(a) == Val("array", "", a)

\* ToBoolean: what `x || y`, `x && y` and `if (x)` test
Truthy(v) ==
    CASE v.t = "undefined" -> FALSE
      [] v.t = "null" -> FALSE
      [] v.t = "string" -> v.s # ""
      [] v.t = "number" -> v.s # "0"
      [] v.t = "boolean" -> v.s = "true"
      [] OTHER -> TRUE

\* x || y
Or(x, y) == IF Truthy(x) THEN x ELSE y

\* Array.isArray
IsArray(v) == v.t = "array"

RECURSIVE JoinObjects(_)
\* Array.prototype.join over an array of objects, as ToString of an array
JoinObjects(a) ==
    IF a = <<>> THEN ""
    ELSE IF Len(a) = 1 THEN "[object Object]"
    ELSE "[object Object]," \o JoinObjects(Tail(a))

\* ToString, as the template literal `${x}` applies it
JsToString(v) ==
    CASE v.t = "undefined" -> "undefined"
      [] v.t = "null" -> "null"
      [] v.t = "array" -> JoinObjects(v.a)
      [] OTHER -> v.s

RECURSIVE StringifyItems(_)
\* JSON.stringify of the items of a products array
StringifyItems(a) ==
    IF a = <<>> THEN ""
    ELSE "{\"name\":\"" \o Head(a) \o "\"}"
         \o (IF Len(a) = 1 THEN "" ELSE ",") \o StringifyItems(Tail(a))

\* JSON.stringify of a field value
StringifyVal(v) ==
    CASE v.t = "string" -> "\"" \o v.s \o "\""
      [] v.t = "array" -> "[" \o StringifyItems(v.a) \o "]"
      [] v.t = "null" -> "null"
      [] OTHER -> v.s

\* the text used as typed, trim() left out
TrimNothing(s) == s

\* String.prototype.trim on the texts the model types
Trim(s) ==
    CASE s = " " -> ""
      [] s = " tv " -> "tv"
      [] s = " oled " -> "oled"
      [] OTHER -> s

(* ---------------------------- backend replies ------------------------- *)

Fields == <<"status", "products", "recommendations_ready", "response",
            "error", "message", "summary">>

\* A parsed reply body `data`: a value with the fields the client probes.
\* A field the body does not have reads as undefined.
Obj(st, pr, rr, re, er, me, su) ==
    [t |-> "object", s |-> "", a |-> <<>>,
     status |-> st, products |-> pr, recommendations_ready |-> rr,
     response |-> re, error |-> er, message |-> me, summary |-> su]

\* A body that is not a plain object: string, number, boolean, null, array
Prim(v) ==
    [t |-> v.t, s |-> v.s, a |-> v.a,
     status |-> Undef, products |-> Undef, recommendations_ready |-> Undef,
     response |-> Undef, error |-> Undef, message |-> Undef, summary |-> Undef]

\* typeof data
TypeOf(d) ==
    CASE d.t \in {"object", "array", "null"} -> "object"
      [] OTHER -> d.t

RECURSIVE StringifyFields(_, _, _)
StringifyFields(d, i, first) ==
    IF i > Len(Fields) THEN ""
    ELSE IF d[Fields[i]].t = "undefined" THEN StringifyFields(d, i + 1, first)
    ELSE (IF first THEN "" ELSE ",")
         \o "\"" \o Fields[i] \o "\":" \o StringifyVal(d[Fields[i]])
         \o StringifyFields(d, i + 1, FALSE)

\* JSON.stringify(data)
Stringify(d) ==
    IF d.t = "object" THEN "{" \o StringifyFields(d, 1, TRUE) \o "}"
    ELSE StringifyVal(Val(d.t, d.s, d.a))

\* The object bodies explored.  The first three families pass the test of
\* one dialect and vary the fields that later tests read, so that several
\* tests hold at once; then the shapes no test recognizes, and the bodies
\* whose fields are empty or of an unexpected type.
ObjectBodies ==
    { Obj(Str("success"), Arr(<<"p1">>), rr, re, er, Undef, Undef) :
        rr \in {Undef, Bool("true")},
        re \in {Undef, Str("Found it")},
        er \in {Undef, Str("rate limited")} }
    \cup
    { Obj(Undef, Arr(<<"p1">>), Bool("true"), re, er, Undef, Undef) :
        re \in {Undef, Str("Found it")},
        er \in {Undef, Str("rate limited")} }
    \cup
    { Obj(st, Undef, Undef, re, er, Undef, Undef) :
        st \in {Undef, Str("success")},
        re \in {Undef, Str("Found it")},
        er \in {Undef, Str("rate limited")} }
    \cup
    { Obj(Undef, Arr(<<"p1">>), Undef, Undef, Undef, Undef, Undef),
      Obj(Str("success"), Arr(<<>>), Undef, Str(""), Undef, Undef, Undef),
      Obj(Str("success"), Str("none"), Bool("true"), Str("Found it"), Undef, Undef, Undef),
      Obj(Undef, Arr(<<"p1">>), Bool("true"), Undef, Undef, Str("Done"), Str("Top picks")),
      Obj(Str("success"), Arr(<<"p1">>), Bool("true"), Undef, Undef, Str("Done"), Str("Top picks")),
      Obj(Undef, Undef, Undef, Str(""), Str(""), Undef, Undef) }

PrimBodies ==
    { Prim(Str("hello")), Prim(Str("")), Prim(Null), Prim(Num("42")),
      Prim(Bool("true")), Prim(Arr(<<>>)) }

Bodies == ObjectBodies \cup PrimBodies

\* What fetch can come back with: it rejects (network failure), or it
\* resolves with a status (ok or not) and a body that parses as JSON or not.
Responses ==
    { [rejected |-> TRUE, ok |-> FALSE, parses |-> FALSE, body |-> Prim(Undef)] }
    \cup
    { [rejected |-> FALSE, ok |-> FALSE, parses |-> TRUE, body |-> b] :
        b \in { Obj(Str("success"), Arr(<<"p1">>), Undef, Str("Found it"), Undef, Undef, Undef),
                Obj(Undef, Undef, Undef, Undef, Str("rate limited"), Undef, Undef) } }
    \cup
    { [rejected |-> FALSE, ok |-> TRUE, parses |-> FALSE, body |-> Prim(Undef)] }
    \cup
    { [rejected |-> FALSE, ok |-> TRUE, parses |-> TRUE, body |-> b] : b \in Bodies }

\* no response: what lastOp holds for a handler that awaited none
NoResponse == [rejected |-> FALSE, ok |-> FALSE, parses |-> FALSE, body |-> Prim(Undef)]

\* the record of a handler run that settled no call
Op(name) == [op |-> name, live |-> FALSE, kind |-> "", resp |-> NoResponse]

\* the texts typed into the search box of HomePage
Queries == {" ", " tv "}

\* the texts typed into the follow-up box of ChatInterface
Texts == {" ", " oled "}

\* the tabs of the browser that show the application; they share localStorage
Tabs == {"this", "other"}

\* the products a recommendation card can show: two offers at one url and
\* one at another
Products ==
    { [url |-> "u1", name |-> "TV"],
      [url |-> "u1", name |-> "TV, refurbished"],
      [url |-> "u2", name |-> "Soundbar"] }

\* the record of a saved-items handler run
SavedOp(name, tab, url, item, notified) ==
    [op |-> name, tab |-> tab, url |-> url, name |-> item, notified |-> notified]

(* ------------------------------- state -------------------------------- *)

VARIABLES
    page,              \* the route shown: "home" (HomePage) or "chat" (ChatPage)
    userQuery,         \* HomePage: the text of the search box
    calls,             \* how many fetch calls have been dispatched so far
    initialQuery,      \* ChatPage: location.state?.query || ''
    initialized,       \* ChatPage: the ref initialized.current
    isProcessing,      \* ChatPage state
    recommendations,   \* ChatPage state: null or {summary, products}
    chatHistory,       \* ChatPage state: the message log
    error,             \* ChatPage state: null or the banner text
    message,           \* ChatInterface: the text of the follow-up box
    inflight,          \* the fetch calls that have not settled yet
    lastOp,            \* the handler that ran last and, when it settled a
                       \* call of the mounted ChatPage, the kind of the
                       \* call and the response it was given
    savedItems,        \* localStorage: the list under the key 'savedItems'
    route,             \* per tab: the page shown, "/chat" or "/saved"
    saved,             \* per tab: SavedItems state, the list it displays
    savedItemsCount,   \* per tab: App state, the number on the badge
    storagePending,    \* per tab: a 'storage' event waits to be handled
    savedOp            \* the saved-items handler that ran last, the tab it
                       \* ran in, the product or url it was given, and
                       \* whether it dispatched 'savedItemsChanged'

chatVars == <<isProcessing, recommendations, chatHistory, error>>

savedVars == <<savedItems, route, saved, savedItemsCount, storagePending, savedOp>>

vars == <<page, userQuery, calls, initialQuery, initialized, isProcessing,
          recommendations, chatHistory, error, message, inflight, lastOp,
          savedItems, route, saved, savedItemsCount, storagePending, savedOp>>

\* recommendations === null
NoRecs == [present |-> FALSE, summary |-> Undef, products |-> Undef]

\* recommendations = { summary, products }
Recs(summary, products) ==
    [present |-> TRUE, summary |-> summary, products |-> products]

\* a chat message { type, content }
Msg(type, content) == [type |-> type, content |-> content]

InitialErrorText ==
    "Sorry, I encountered an error while processing your request. Please try again."

FollowUpErrorText == "Sorry, I encountered an error. Please try again."

Init ==
    /\ page = "home"
    /\ userQuery = ""
    /\ calls = 0
    /\ initialQuery = ""
    /\ initialized = FALSE
    /\ isProcessing = FALSE
    /\ recommendations = NoRecs
    /\ chatHistory = <<>>
    /\ error = Null
    /\ message = ""
    /\ inflight = <<>>
    /\ lastOp = Op("load")
    /\ savedItems = <<>>
    /\ route = [t \in Tabs |-> "/chat"]
    /\ saved = [t \in Tabs |-> <<>>]
    /\ savedItemsCount = [t \in Tabs |-> 0]
    /\ storagePending = [t \in Tabs |-> FALSE]
    /\ savedOp = SavedOp("load", "this", "", "", FALSE)

(* ----------------------------- the transport -------------------------- *)

\* searchProducts without the test of response.ok: the body of any response
\* that parses is returned
searchProductsIgnoresStatus(resp) ==
    IF resp.rejected THEN [threw |-> TRUE, data |-> Prim(Undef)]
    ELSE IF ~resp.parses THEN [threw |-> TRUE, data |-> Prim(Undef)]
    ELSE [threw |-> FALSE, data |-> resp.body]

\* searchProducts: what the awaited call gives for a response of fetch.
\* It throws when fetch rejects, when the status is not ok and when the body
\* does not parse; otherwise it returns the parsed body.
searchProducts(resp) ==
    IF resp.rejected THEN [threw |-> TRUE, data |-> Prim(Undef)]
    ELSE IF ~resp.ok THEN [threw |-> TRUE, data |-> Prim(Undef)]
    ELSE IF ~resp.parses THEN [threw |-> TRUE, data |-> Prim(Undef)]
    ELSE [threw |-> FALSE, data |-> resp.body]

\* the body of the POST: { message, context }; live says that the ChatPage
\* whose handler awaits the call is still mounted
Call(kind, query, context) ==
    [live |-> TRUE, kind |-> kind, message |-> query, context |-> context]

(* ------------------------ reply classification ------------------------ *)

\* the test of the product search format, asking for a non-empty array
SuccessTestNonEmpty(data) ==
    /\ data.status = Str("success")
    /\ Truthy(data.products)
    /\ IsArray(data.products)
    /\ Len(data.products.a) > 0

\* data.status === 'success' && data.products && Array.isArray(data.products)
SuccessTest(data) ==
    data.status = Str("success") /\ Truthy(data.products) /\ IsArray(data.products)

\* data.recommendations_ready && data.products
LegacyTest(data) == Truthy(data.recommendations_ready) /\ Truthy(data.products)

\* what a branch of the classification leaves in agentResponse and in
\* recommendations (updatedRecommendations in handleFollowUp)
Outcome(agentResponse, recs) ==
    [agentResponse |-> agentResponse, recommendations |-> recs]

\* handleInitialSearch, product search response format
SuccessInitial(data) ==
    Outcome(Or(data.response, Str("Here are your product recommendations!")),
            Recs(Or(data.response, Str("Product recommendations")), data.products))

\* handleInitialSearch, legacy format, with the message read from the field
\* of the product search format
LegacyInitialReadsResponse(data) ==
    Outcome(Or(data.response, Str("Here are your product recommendations!")),
            Recs(Or(data.summary, Str("Product recommendations")), data.products))

\* handleInitialSearch, legacy format
LegacyInitial(data) ==
    Outcome(Or(data.message, Str("Here are your product recommendations!")),
            Recs(Or(data.summary, Str("Product recommendations")), data.products))

\* handleFollowUp, product search response format, with the message read
\* from the legacy field
SuccessFollowUpReadsMessage(data) ==
    Outcome(Or(data.message, Str("Here are your updated recommendations!")),
            Recs(Or(data.response, Str("Updated recommendations")), data.products))

\* handleFollowUp, product search response format
SuccessFollowUp(data) ==
    Outcome(Or(data.response, Str("Here are your updated recommendations!")),
            Recs(Or(data.response, Str("Updated recommendations")), data.products))

\* handleFollowUp, legacy format
LegacyFollowUp(data) ==
    Outcome(Or(data.message, Str("Here are your updated recommendations!")),
            Recs(Or(data.summary, Str("Updated recommendations")), data.products))

\* conversational response format
Conversational(data) == Outcome(data.response, NoRecs)

\* error format, showing the bare upstream text
ErrorFormatBareText(data) == Outcome(Str(JsToString(data.error)), NoRecs)

\* error format
ErrorFormat(data) ==
    Outcome(Str("Sorry, I encountered an error: " \o JsToString(data.error)), NoRecs)

\* default fallback
DefaultFallback(data) == Outcome(Str(Stringify(data)), NoRecs)

\* handleInitialSearch: agentResponse and recommendations computed from data
ProcessInitial(data) ==
    IF TypeOf(data) = "string" THEN Outcome(Str(data.s), NoRecs)
    ELSE IF Truthy(data) /\ TypeOf(data) = "object"
    THEN IF SuccessTest(data) THEN SuccessInitial(data)
         ELSE IF LegacyTest(data) THEN LegacyInitial(data)
         ELSE IF Truthy(data.response) THEN Conversational(data)
         ELSE IF Truthy(data.error) THEN ErrorFormat(data)
         ELSE DefaultFallback(data)
    ELSE Outcome(Str(""), NoRecs)

\* handleFollowUp with the conversational test moved ahead of the product
\* tests
ProcessFollowUpResponseFirst(data) ==
    IF TypeOf(data) = "string" THEN Outcome(Str(data.s), NoRecs)
    ELSE IF Truthy(data) /\ TypeOf(data) = "object"
    THEN IF Truthy(data.response) THEN Conversational(data)
         ELSE IF SuccessTest(data) THEN SuccessFollowUp(data)
         ELSE IF LegacyTest(data) THEN LegacyFollowUp(data)
         ELSE IF Truthy(data.error) THEN ErrorFormat(data)
         ELSE DefaultFallback(data)
    ELSE Outcome(Str(""), NoRecs)

\* handleFollowUp: agentResponse and updatedRecommendations computed from data
ProcessFollowUp(data) ==
    IF TypeOf(data) = "string" THEN Outcome(Str(data.s), NoRecs)
    ELSE IF Truthy(data) /\ TypeOf(data) = "object"
    THEN IF SuccessTest(data) THEN SuccessFollowUp(data)
         ELSE IF LegacyTest(data) THEN LegacyFollowUp(data)
         ELSE IF Truthy(data.response) THEN Conversational(data)
         ELSE IF Truthy(data.error) THEN ErrorFormat(data)
         ELSE DefaultFallback(data)
    ELSE Outcome(Str(""), NoRecs)

(* ------------------------------ HomePage ------------------------------ *)

\* onChange of the search box: setUserQuery(e.target.value)
setUserQuery(v) ==
    /\ UNCHANGED savedVars
    /\ page = "home"
    /\ userQuery' = v
    /\ lastOp' = Op("setUserQuery")
    /\ UNCHANGED <<page, calls, initialQuery, initialized, chatVars, message, inflight>>

\* handleInitialSearch up to its await, sending the log it has just started
\* as the chat history of the first call
handleInitialSearchSendsLog(query) ==
    IF Trim(query) = ""
    THEN UNCHANGED <<chatVars, inflight, calls>>
    ELSE /\ calls < MaxCalls
         /\ isProcessing' = TRUE
         /\ chatHistory' = <<Msg("user", Str(query))>>
         /\ recommendations' = NoRecs
         /\ error' = Null
         /\ calls' = calls + 1
         /\ inflight' = Append(inflight,
                Call("initial", query,
                     [original_query |-> query,
                      chat_history |-> <<[role |-> "user", content |-> Str(query)]>>,
                      current_products |-> Arr(<<>>)]))

\* handleInitialSearch up to its await, without setIsProcessing(true)
handleInitialSearchNotBusy(query) ==
    IF Trim(query) = ""
    THEN UNCHANGED <<chatVars, inflight, calls>>
    ELSE /\ calls < MaxCalls
         /\ chatHistory' = <<Msg("user", Str(query))>>
         /\ recommendations' = NoRecs
         /\ error' = Null
         /\ calls' = calls + 1
         /\ inflight' = Append(inflight,
                Call("initial", query,
                     [original_query |-> query,
                      chat_history |-> <<>>,
                      current_products |-> Arr(<<>>)]))
         /\ UNCHANGED isProcessing

\* handleInitialSearch up to its await, called with the state of a fresh mount
handleInitialSearch(query) ==
    IF Trim(query) = ""
    THEN UNCHANGED <<chatVars, inflight, calls>>
    ELSE /\ calls < MaxCalls
         /\ isProcessing' = TRUE
         /\ chatHistory' = <<Msg("user", Str(query))>>
         /\ recommendations' = NoRecs
         /\ error' = Null
         /\ calls' = calls + 1
         /\ inflight' = Append(inflight,
                Call("initial", query,
                     [original_query |-> query,
                      chat_history |-> <<>>,
                      current_products |-> Arr(<<>>)]))

\* ChatPage is mounted with location.state.query = q (absent: ''), and its
\* initialization effect runs: if (initialQuery && !initialized.current)
MountChatPage(q) ==
    /\ page' = "chat"
    /\ userQuery' = ""
    /\ initialQuery' = q
    /\ message' = ""
    /\ IF q # "" /\ ~initialized
       THEN /\ initialized' = TRUE
            /\ handleInitialSearch(q)
       ELSE UNCHANGED <<initialized, chatVars, inflight, calls>>

\* HomePage.handleSearch
handleSearch ==
    /\ UNCHANGED savedVars
    /\ page = "home"
    /\ lastOp' = Op("handleSearch")
    /\ IF Trim(userQuery) = ""
       THEN UNCHANGED <<page, userQuery, calls, initialQuery, initialized, chatVars,
                        message, inflight>>
       ELSE MountChatPage(Trim(userQuery))

\* /chat is opened without a query in the location state, and ChatPage
\* takes a stock query in its place
OpenChatWithStockQuery ==
    /\ UNCHANGED savedVars
    /\ page = "home"
    /\ lastOp' = Op("openChat")
    /\ MountChatPage("tv")

\* /chat is opened without a query in the location state
OpenChatWithoutQuery ==
    /\ UNCHANGED savedVars
    /\ page = "home"
    /\ lastOp' = Op("openChat")
    /\ MountChatPage("")

\* handleBackToHome, and the header's link to "/": ChatPage is unmounted and
\* its state is gone; the calls it dispatched stay in flight, awaited by
\* handlers of a component that is no longer mounted
handleBackToHome ==
    /\ UNCHANGED savedVars
    /\ page = "chat"
    /\ page' = "home"
    /\ initialQuery' = ""
    /\ initialized' = FALSE
    /\ isProcessing' = FALSE
    /\ recommendations' = NoRecs
    /\ chatHistory' = <<>>
    /\ error' = Null
    /\ message' = ""
    /\ lastOp' = Op("handleBackToHome")
    /\ inflight' = [i \in 1..Len(inflight) |-> [inflight[i] EXCEPT !.live = FALSE]]
    /\ UNCHANGED <<userQuery, calls>>

(* ---------------------------- ChatInterface --------------------------- *)

\* ChatPage renders ChatInterface: chatHistory.length > 0, below the early
\* return for an empty initialQuery
ChatInterfaceShown == page = "chat" /\ initialQuery # "" /\ Len(chatHistory) > 0

\* ChatInterface never told that a call is in flight
isProcessingPropNeverBusy == FALSE

\* the isProcessing prop ChatPage hands to ChatInterface
isProcessingProp == isProcessing

\* onChange of the follow-up box (disabled while isProcessing)
setMessage(v) ==
    /\ UNCHANGED savedVars
    /\ ChatInterfaceShown
    /\ ~isProcessingProp
    /\ message' = v
    /\ lastOp' = Op("setMessage")
    /\ UNCHANGED <<page, userQuery, calls, initialQuery, initialized, chatVars, inflight>>

\* handleFollowUp up to its await, sending no current products
handleFollowUpSendsNoProducts(msg) ==
    IF Trim(msg) = ""
    THEN UNCHANGED <<chatVars, inflight, calls>>
    ELSE /\ calls < MaxCalls
         /\ chatHistory' = Append(chatHistory, Msg("user", Str(msg)))
         /\ isProcessing' = TRUE
         /\ calls' = calls + 1
         /\ inflight' = Append(inflight,
                Call("followup", msg,
                     [original_query |-> initialQuery,
                      chat_history |->
                          [i \in 1..Len(chatHistory) |->
                              [role |-> IF chatHistory[i].type = "user"
                                        THEN "user" ELSE "assistant",
                               content |-> chatHistory[i].content]],
                      current_products |-> Arr(<<>>)]))
         /\ UNCHANGED <<recommendations, error>>

\* handleFollowUp up to its await
handleFollowUp(msg) ==
    IF Trim(msg) = ""
    THEN UNCHANGED <<chatVars, inflight, calls>>
    ELSE /\ calls < MaxCalls
         /\ chatHistory' = Append(chatHistory, Msg("user", Str(msg)))
         /\ isProcessing' = TRUE
         /\ calls' = calls + 1
         /\ inflight' = Append(inflight,
                Call("followup", msg,
                     [original_query |-> initialQuery,
                      chat_history |->
                          [i \in 1..Len(chatHistory) |->
                              [role |-> IF chatHistory[i].type = "user"
                                        THEN "user" ELSE "assistant",
                               content |-> chatHistory[i].content]],
                      current_products |->
                          IF recommendations.present
                          THEN Or(recommendations.products, Arr(<<>>))
                          ELSE Arr(<<>>)]))
         /\ UNCHANGED <<recommendations, error>>

\* ChatInterface.handleSendMessage
handleSendMessage ==
    /\ UNCHANGED savedVars
    /\ ChatInterfaceShown
    /\ lastOp' = Op("handleSendMessage")
    /\ UNCHANGED <<page, userQuery, initialQuery, initialized>>
    /\ IF Trim(message) = "" \/ isProcessingProp
       THEN UNCHANGED <<chatVars, inflight, calls, message>>
       ELSE /\ handleFollowUp(Trim(message))
            /\ message' = ""

(* ----------------------------- settlement ----------------------------- *)

RemoveAt(q, i) == SubSeq(q, 1, i - 1) \o SubSeq(q, i + 1, Len(q))

\* handleInitialSearch after its await, taking the failed query back out of
\* the log
settleInitialRollsBack(resp) ==
    LET got == searchProducts(resp)
        p == ProcessInitial(got.data)
    IN  IF got.threw
        THEN /\ error' = Str(InitialErrorText)
             /\ chatHistory' = <<Msg("error", Str(InitialErrorText))>>
             /\ isProcessing' = FALSE
             /\ UNCHANGED recommendations
        ELSE /\ chatHistory' = Append(chatHistory,
                    Msg("agent", Or(p.agentResponse,
                                    Str("I found some products that might interest you!"))))
             /\ recommendations' = IF p.recommendations.present
                                   THEN p.recommendations ELSE recommendations
             /\ isProcessing' = FALSE
             /\ UNCHANGED error

\* handleInitialSearch after its await
settleInitial(resp) ==
    LET got == searchProducts(resp)
        p == ProcessInitial(got.data)
    IN  IF got.threw
        THEN /\ error' = Str(InitialErrorText)
             /\ chatHistory' = Append(chatHistory, Msg("error", Str(InitialErrorText)))
             /\ isProcessing' = FALSE
             /\ UNCHANGED recommendations
        ELSE /\ chatHistory' = Append(chatHistory,
                    Msg("agent", Or(p.agentResponse,
                                    Str("I found some products that might interest you!"))))
             /\ recommendations' = IF p.recommendations.present
                                   THEN p.recommendations ELSE recommendations
             /\ isProcessing' = FALSE
             /\ UNCHANGED error

\* handleFollowUp after its await, storing updatedRecommendations even
\* when the reply brought none
settleFollowUpAlwaysStores(resp) ==
    LET got == searchProducts(resp)
        p == ProcessFollowUp(got.data)
    IN  IF got.threw
        THEN /\ chatHistory' = Append(chatHistory, Msg("error", Str(FollowUpErrorText)))
             /\ isProcessing' = FALSE
             /\ UNCHANGED <<recommendations, error>>
        ELSE /\ chatHistory' = Append(chatHistory, Msg("agent", p.agentResponse))
             /\ recommendations' = p.recommendations
             /\ isProcessing' = FALSE
             /\ UNCHANGED error

\* handleFollowUp after its await, with setIsProcessing(false) at the end of
\* the try block instead of in a finally block
settleFollowUpBusyAfterFailure(resp) ==
    LET got == searchProducts(resp)
        p == ProcessFollowUp(got.data)
    IN  IF got.threw
        THEN /\ chatHistory' = Append(chatHistory, Msg("error", Str(FollowUpErrorText)))
             /\ UNCHANGED <<isProcessing, recommendations, error>>
        ELSE /\ chatHistory' = Append(chatHistory, Msg("agent", p.agentResponse))
             /\ recommendations' = IF p.recommendations.present
                                   THEN p.recommendations ELSE recommendations
             /\ isProcessing' = FALSE
             /\ UNCHANGED error

\* handleFollowUp after its await
settleFollowUp(resp) ==
    LET got == searchProducts(resp)
        p == ProcessFollowUp(got.data)
    IN  IF got.threw
        THEN /\ chatHistory' = Append(chatHistory, Msg("error", Str(FollowUpErrorText)))
             /\ isProcessing' = FALSE
             /\ UNCHANGED <<recommendations, error>>
        ELSE /\ chatHistory' = Append(chatHistory, Msg("agent", p.agentResponse))
             /\ recommendations' = IF p.recommendations.present
                                   THEN p.recommendations ELSE recommendations
             /\ isProcessing' = FALSE
             /\ UNCHANGED error

\* the i-th call in flight settles with resp, and a call of the mounted
\* ChatPage whose transport failed is sent again instead of being reported
SettleWithRetry(i, resp) ==
    /\ UNCHANGED savedVars
    /\ i \in 1..Len(inflight)
    /\ lastOp' = IF inflight[i].live
                 THEN [op |-> "settle", live |-> TRUE,
                       kind |-> inflight[i].kind, resp |-> resp]
                 ELSE Op("settle")
    /\ UNCHANGED <<page, userQuery, initialQuery, initialized, message>>
    /\ IF inflight[i].live /\ searchProducts(resp).threw
       THEN /\ calls < MaxCalls
            /\ calls' = calls + 1
            /\ UNCHANGED <<inflight, chatVars>>
       ELSE /\ inflight' = RemoveAt(inflight, i)
            /\ UNCHANGED calls
            /\ IF inflight[i].live
               THEN IF inflight[i].kind = "initial"
                    THEN settleInitial(resp)
                    ELSE settleFollowUp(resp)
               ELSE UNCHANGED chatVars

\* the i-th call in flight settles with resp, its handler writing to the
\* ChatPage that is mounted now, be it the one that dispatched the call or not
SettleWithSharedState(i, resp) ==
    /\ UNCHANGED savedVars
    /\ i \in 1..Len(inflight)
    /\ inflight' = RemoveAt(inflight, i)
    /\ lastOp' = IF inflight[i].live
                 THEN [op |-> "settle", live |-> TRUE,
                       kind |-> inflight[i].kind, resp |-> resp]
                 ELSE Op("settle")
    /\ UNCHANGED <<page, userQuery, calls, initialQuery, initialized, message>>
    /\ IF inflight[i].kind = "initial"
       THEN settleInitial(resp)
       ELSE settleFollowUp(resp)

\* the i-th call in flight settles with resp; the state setters of a
\* ChatPage that is no longer mounted change nothing
SettleWith(i, resp) ==
    /\ UNCHANGED savedVars
    /\ i \in 1..Len(inflight)
    /\ inflight' = RemoveAt(inflight, i)
    /\ lastOp' = IF inflight[i].live
                 THEN [op |-> "settle", live |-> TRUE,
                       kind |-> inflight[i].kind, resp |-> resp]
                 ELSE Op("settle")
    /\ UNCHANGED <<page, userQuery, calls, initialQuery, initialized, message>>
    /\ IF inflight[i].live
       THEN IF inflight[i].kind = "initial"
            THEN settleInitial(resp)
            ELSE settleFollowUp(resp)
       ELSE UNCHANGED chatVars

Settle == \E i \in 1..Len(inflight) : \E resp \in Responses : SettleWith(i, resp)

(* ----------------------------- saved items --------------------------- *)

\* the chat side of the state, which the saved-items handlers do not touch
chatSide == <<page, userQuery, calls, initialQuery, initialized, isProcessing,
              recommendations, chatHistory, error, message, inflight, lastOp>>

\* saved.find's test with the items compared as wholes
SameItemByValue(item, product) == item = product

\* the test of saved.find in handleSaveForLater: item.url === product.url
SameItem(item, product) == item.url = product.url

\* App.updateSavedItemsCount in tab t, counting the notifications instead of
\* reading the list
updateSavedItemsCountByOne(t, store) == [savedItemsCount EXCEPT ![t] = @ + 1]

\* App.updateSavedItemsCount in tab t, reading the list store
updateSavedItemsCount(t, store) == [savedItemsCount EXCEPT ![t] = Len(store)]

\* localStorage.setItem in tab t: the other tabs are sent a 'storage' event
\* when the value changes
setItem(t, store) ==
    /\ savedItems' = store
    /\ storagePending' = [u \in Tabs |->
            IF u # t /\ store # savedItems THEN TRUE ELSE storagePending[u]]

\* ProductRecommendation.handleSaveForLater in tab t; dispatchEvent runs the
\* listener of App before it returns
handleSaveForLater(t, product) ==
    /\ route[t] = "/chat"
    /\ IF ~\E i \in 1..Len(savedItems) : SameItem(savedItems[i], product)
       THEN /\ setItem(t, Append(savedItems, product))
            /\ savedItemsCount' = updateSavedItemsCount(t, Append(savedItems, product))
            /\ savedOp' = SavedOp("add", t, product.url, product.name, TRUE)
       ELSE /\ savedOp' = SavedOp("add", t, product.url, product.name, FALSE)
            /\ UNCHANGED <<savedItems, savedItemsCount, storagePending>>
    /\ UNCHANGED <<route, saved>>
    /\ UNCHANGED chatSide

\* saved.filter(item => item.url !== url)
WithoutUrl(list, url) == SelectSeq(list, LAMBDA item : item.url # url)

\* SavedItems.handleRemove in tab t, from the card of an item it displays
handleRemove(t, url) ==
    /\ route[t] = "/saved"
    /\ \E i \in 1..Len(saved[t]) : saved[t][i].url = url
    /\ saved' = [saved EXCEPT ![t] = WithoutUrl(saved[t], url)]
    /\ setItem(t, WithoutUrl(saved[t], url))
    /\ savedItemsCount' = updateSavedItemsCount(t, WithoutUrl(saved[t], url))
    /\ savedOp' = SavedOp("remove", t, url, "", TRUE)
    /\ UNCHANGED route
    /\ UNCHANGED chatSide

\* App.handleStorageChange in tab t, for a change made in another tab
handleStorageChange(t) ==
    /\ storagePending[t]
    /\ storagePending' = [storagePending EXCEPT ![t] = FALSE]
    /\ savedItemsCount' = updateSavedItemsCount(t, savedItems)
    /\ savedOp' = SavedOp("storage", t, "", "", FALSE)
    /\ UNCHANGED <<savedItems, route, saved>>
    /\ UNCHANGED chatSide

\* tab t goes to /saved: SavedItems is mounted and its effect loads the list
OpenSavedItems(t) ==
    /\ route[t] = "/chat"
    /\ route' = [route EXCEPT ![t] = "/saved"]
    /\ saved' = [saved EXCEPT ![t] = savedItems]
    /\ savedOp' = SavedOp("open", t, "", "", FALSE)
    /\ UNCHANGED <<savedItems, savedItemsCount, storagePending>>
    /\ UNCHANGED chatSide

\* tab t leaves /saved: SavedItems is unmounted, its state is gone
LeaveSavedItems(t) ==
    /\ route[t] = "/saved"
    /\ route' = [route EXCEPT ![t] = "/chat"]
    /\ saved' = [saved EXCEPT ![t] = <<>>]
    /\ savedOp' = SavedOp("leave", t, "", "", FALSE)
    /\ UNCHANGED <<savedItems, savedItemsCount, storagePending>>
    /\ UNCHANGED chatSide

SavedNext ==
    \/ \E t \in Tabs : \E product \in Products : handleSaveForLater(t, product)
    \/ \E t \in Tabs : \E url \in {"u1", "u2"} : handleRemove(t, url)
    \/ \E t \in Tabs : handleStorageChange(t)
    \/ \E t \in Tabs : OpenSavedItems(t)
    \/ \E t \in Tabs : LeaveSavedItems(t)

\* the saved items alone, the chat left as it is after loading
SavedSpec == Init /\ [][SavedNext]_vars

(* --------------------------- specification ---------------------------- *)

Next ==
    \/ \E v \in Queries : setUserQuery(v)
    \/ handleSearch
    \/ OpenChatWithoutQuery
    \/ handleBackToHome
    \/ \E v \in Texts : setMessage(v)
    \/ handleSendMessage
    \/ Settle

Spec == Init /\ [][Next]_vars

\* the queries a /chat entry of the session history can carry
HistoryQueries == {"tv", "radio"}

\* the initialization effect run again without the initialized ref
RerunInitializationEffectNoRef(q) ==
    /\ UNCHANGED savedVars
    /\ page = "chat"
    /\ initialQuery' = q
    /\ lastOp' = Op("effect")
    /\ UNCHANGED <<page, userQuery, message>>
    /\ IF q # ""
       THEN /\ initialized' = TRUE
            /\ handleInitialSearch(q)
       ELSE UNCHANGED <<initialized, chatVars, inflight, calls>>

\* ChatPage is rendered again while mounted, with the query q in the
\* location state (the same as before, or another when the user moves
\* between two /chat entries of the session history), and its
\* initialization effect runs again
RerunInitializationEffect(q) ==
    /\ UNCHANGED savedVars
    /\ page = "chat"
    /\ initialQuery' = q
    /\ lastOp' = Op("effect")
    /\ UNCHANGED <<page, userQuery, message>>
    /\ IF q # "" /\ ~initialized
       THEN /\ initialized' = TRUE
            /\ handleInitialSearch(q)
       ELSE UNCHANGED <<initialized, chatVars, inflight, calls>>

\* the responses explored along with the re-runs of the effect: a rejected
\* fetch, a reply with products and a bare string
EffectResponses ==
    { r \in Responses :
        \/ r.rejected
        \/ /\ r.ok /\ r.parses
           /\ r.body \in { Obj(Str("success"), Arr(<<"p1">>), Undef, Str("Found it"),
                               Undef, Undef, Undef),
                           Prim(Str("hello")) } }

SettleEffect ==
    \E i \in 1..Len(inflight) : \E resp \in EffectResponses : SettleWith(i, resp)

EffectNext ==
    \/ \E v \in Queries : setUserQuery(v)
    \/ handleSearch
    \/ OpenChatWithoutQuery
    \/ handleBackToHome
    \/ \E v \in Texts : setMessage(v)
    \/ handleSendMessage
    \/ SettleEffect
    \/ \E q \in HistoryQueries : RerunInitializationEffect(q)

\* the chat with re-renders of ChatPage and changes of its location state,
\* over a few responses
EffectSpec == Init /\ [][EffectNext]_vars

TypeOK ==
    /\ page \in {"home", "chat"}
    /\ isProcessing \in BOOLEAN
    /\ calls \in 0..MaxCalls

(* ------------------------------- claims ------------------------------- *)

\* the transport fails: fetch rejects, the status is not 2xx, or the body
\* is not JSON
TransportFails(resp) == resp.rejected \/ ~resp.ok \/ ~resp.parses

\* the reply is of a product-bearing dialect: an object that passes the
\* status-success test or the legacy recommendations_ready test
ProductBearing(resp) ==
    /\ ~TransportFails(resp)
    /\ resp.body.t = "object"
    /\ \/ /\ resp.body.status = Str("success")
          /\ resp.body.products.t = "array"
       \/ /\ Truthy(resp.body.recommendations_ready)
          /\ Truthy(resp.body.products)

\* this step is the settlement of a call of the mounted ChatPage
TurnSettles == lastOp'.op = "settle" /\ lastOp'.live

\* C1: a turn whose reply yields no product set (a bare string, a
\* response-only object, an error object, an unrecognized shape, a transport
\* failure) leaves the stored product set as it was when the turn began:
\* neither the submission of a follow-up nor the settlement of such a turn
\* changes recommendations, and the initial turn starts from, and keeps, none.
C1_NoProductsKeepsProductSet ==
    [][ /\ handleSendMessage => recommendations' = recommendations
        /\ handleSearch => recommendations' = NoRecs /\ recommendations = NoRecs
        /\ (TurnSettles /\ ~ProductBearing(lastOp'.resp))
              => recommendations' = recommendations ]_vars

\* a follow-up answered by a bare string after products were stored
C1_Witness ==
    /\ lastOp.op = "settle"
    /\ lastOp.kind = "followup"
    /\ lastOp.resp.body = Prim(Str("hello"))
    /\ Len(chatHistory) = 4
    /\ chatHistory[4] = Msg("agent", Str("hello"))
    /\ recommendations.present
    /\ recommendations.products = Arr(<<"p1">>)

\* C2: the log is (user, agent|error)* with at most one trailing user
\* message, and a trailing user message is there only while busy.
C2_LogAlternates ==
    /\ \A i \in 1..Len(chatHistory) :
          IF i % 2 = 1
          THEN chatHistory[i].type = "user"
          ELSE chatHistory[i].type \in {"agent", "error"}
    /\ Len(chatHistory) % 2 = 1 => isProcessing

\* the second turn is awaiting its reply, the first ended with an error
C2_Witness ==
    /\ Len(chatHistory) = 3
    /\ chatHistory[2].type = "error"
    /\ chatHistory[3].type = "user"
    /\ isProcessing

RECURSIVE UserAndAgentTurns(_)
\* the user and agent messages of a log, in order, as {role, content} with
\* agent mapped to assistant, the error messages dropped
UserAndAgentTurns(log) ==
    IF log = <<>> THEN <<>>
    ELSE IF Head(log).type = "error" THEN UserAndAgentTurns(Tail(log))
    ELSE <<[role |-> IF Head(log).type = "user" THEN "user" ELSE "assistant",
            content |-> Head(log).content]>> \o UserAndAgentTurns(Tail(log))

\* C3: the chat_history of the follow-up call in flight is the user and
\* agent messages of the earlier turns, mapped to user/assistant, without
\* the error messages and without the user message of the turn itself.
C3_HistoryDropsErrors ==
    \A i \in 1..Len(inflight) :
        (inflight[i].live /\ inflight[i].kind = "followup")
            => inflight[i].context.chat_history
                   = UserAndAgentTurns(SubSeq(chatHistory, 1, Len(chatHistory) - 1))

\* the calls in flight whose ChatPage is still mounted
LiveCalls == {i \in 1..Len(inflight) : inflight[i].live}

\* C4: a mounted session has at most one call in flight, it is busy exactly
\* while it has one, and a submission made while busy appends no message and
\* dispatches no call.
C4_OneCallInFlight ==
    /\ [](Cardinality(LiveCalls) <= 1 /\ (isProcessing <=> LiveCalls # {}))
    /\ [][ (handleSendMessage /\ isProcessing)
              => UNCHANGED <<chatHistory, inflight, calls>> ]_vars

\* a submission was made, and rejected, while the initial search is in flight
C4_Witness ==
    /\ lastOp.op = "handleSendMessage"
    /\ isProcessing
    /\ Len(chatHistory) = 1
    /\ Cardinality(LiveCalls) = 1

\* the fallback text of a failed turn
FailureText(kind) ==
    IF kind = "initial"
    THEN "Sorry, I encountered an error while processing your request. Please try again."
    ELSE "Sorry, I encountered an error. Please try again."

\* C5 (as amended): a transport failure appends exactly one error message,
\* whose text is fixed for the kind of turn (one text for the initial turn,
\* another for a follow-up), and leaves the earlier messages, the triggering
\* user message among them, and the product set as they were.
C5_FailureAppendsOneError ==
    [][ (TurnSettles /\ TransportFails(lastOp'.resp))
            => /\ chatHistory' = Append(chatHistory,
                      Msg("error", Str(FailureText(lastOp'.kind))))
               /\ recommendations' = recommendations ]_vars

\* both kinds of turn have failed in one session
C5_Witness ==
    /\ Len(chatHistory) = 4
    /\ chatHistory[2] = Msg("error", Str(FailureText("initial")))
    /\ chatHistory[4] = Msg("error", Str(FailureText("followup")))
    /\ chatHistory[3].type = "user"

\* C5 as stated: the error message of a failed turn has the same text as
\* every error message logged before it.
C5_SameTextOnEveryTurn ==
    [][ (TurnSettles /\ TransportFails(lastOp'.resp))
            => /\ Len(chatHistory') = Len(chatHistory) + 1
               /\ SubSeq(chatHistory', 1, Len(chatHistory)) = chatHistory
               /\ chatHistory'[Len(chatHistory')].type = "error"
               /\ \A k \in 1..Len(chatHistory) :
                     chatHistory[k].type = "error"
                         => chatHistory[k].content
                                = chatHistory'[Len(chatHistory')].content
               /\ recommendations' = recommendations ]_vars

\* C6: a transport failure on a turn, initial or follow-up, leaves the
\* session-level error flag set.
C6_FailureSetsErrorFlag ==
    [][ (TurnSettles /\ TransportFails(lastOp'.resp)) => Truthy(error') ]_vars

\* C7: a turn that settles with a successful reply (a string or an object
\* without an error field, over a transport that did not fail) while the
\* error flag is set clears the flag and keeps the log, the error message
\* included.
C7_SuccessClearsErrorFlag ==
    [][ (/\ TurnSettles
         /\ ~TransportFails(lastOp'.resp)
         /\ lastOp'.resp.body.t \in {"string", "object"}
         /\ ~Truthy(lastOp'.resp.body.error)
         /\ Truthy(error))
            => /\ error' = Null
               /\ SubSeq(chatHistory', 1, Len(chatHistory)) = chatHistory ]_vars

\* a text that is empty or only whitespace
Blank(text) == text \in {"", " "}

\* C8: submitting an empty or whitespace-only text, in the search box or in
\* the follow-up box, appends no message, dispatches no call and leaves the
\* busy flag, the product set and the error flag alone.
C8_BlankQueryIsNoOp ==
    [][ /\ (handleSearch /\ Blank(userQuery))
            => UNCHANGED <<chatHistory, inflight, calls, isProcessing,
                           recommendations, error>>
        /\ (handleSendMessage /\ Blank(message))
            => UNCHANGED <<chatHistory, inflight, calls, isProcessing,
                           recommendations, error>> ]_vars

\* a whitespace-only follow-up was submitted in a settled session
C8_Witness ==
    /\ lastOp.op = "handleSendMessage"
    /\ message = " "
    /\ ~isProcessing
    /\ Len(chatHistory) = 2
    /\ recommendations.present

\* the first dialect, in the order string, status-success with a products
\* array, legacy recommendations_ready with products, response, error,
\* whose test the body passes; unrecognized when it passes none
FirstMatch(d) ==
    IF d.t = "string" THEN "string"
    ELSE IF d.t # "object" THEN "unrecognized"
    ELSE IF d.status = Str("success") /\ d.products.t = "array" THEN "success"
    ELSE IF Truthy(d.recommendations_ready) /\ Truthy(d.products) THEN "legacy"
    ELSE IF Truthy(d.response) THEN "response"
    ELSE IF Truthy(d.error) THEN "error"
    ELSE "unrecognized"

\* how many of the dialect tests the body passes
TestsPassed(d) ==
    Cardinality({ n \in {"success", "legacy", "response", "error"} :
        /\ d.t = "object"
        /\ \/ n = "success" /\ d.status = Str("success") /\ d.products.t = "array"
           \/ n = "legacy" /\ Truthy(d.recommendations_ready) /\ Truthy(d.products)
           \/ n = "response" /\ Truthy(d.response)
           \/ n = "error" /\ Truthy(d.error) })

\* the fallback text of a product-bearing reply that brings no message
FallbackText(kind) ==
    IF kind = "initial"
    THEN "Here are your product recommendations!"
    ELSE "Here are your updated recommendations!"

\* the message the rule of dialect n takes from the body
RuleMessage(n, kind, d) ==
    CASE n = "string" -> Str(d.s)
      [] n = "success" -> Or(d.response, Str(FallbackText(kind)))
      [] n = "legacy" -> Or(d.message, Str(FallbackText(kind)))
      [] n = "response" -> d.response
      [] n = "error" -> Str("Sorry, I encountered an error: " \o d.error.s)
      [] OTHER -> Str(Stringify(d))

\* the message shown for m: the initial turn replaces an empty one
Shown(kind, m) ==
    IF kind = "initial" /\ ~Truthy(m)
    THEN Str("I found some products that might interest you!")
    ELSE m

\* the content of the message this step appended to the log
Appended == chatHistory'[Len(chatHistory')].content

\* C9: a string or object reply is mapped by the first rule, in the order
\* string, success, legacy, response, error, unrecognized, whose test it
\* passes: the appended message is that rule's message, and the product set
\* is replaced by the reply's products exactly under the success and legacy
\* rules, whatever later tests the reply passes as well.
C9_FirstMatchWins ==
    [][ (/\ TurnSettles
         /\ ~TransportFails(lastOp'.resp)
         /\ lastOp'.resp.body.t \in {"string", "object"})
            => LET d == lastOp'.resp.body
                   n == FirstMatch(d)
               IN  /\ Len(chatHistory') = Len(chatHistory) + 1
                   /\ Appended = Shown(lastOp'.kind, RuleMessage(n, lastOp'.kind, d))
                   /\ IF n \in {"success", "legacy"}
                      THEN /\ recommendations'.present
                           /\ recommendations'.products = d.products
                      ELSE recommendations' = recommendations ]_vars

\* a follow-up reply that passes all four object tests was stored as products
C9_Witness ==
    /\ lastOp.op = "settle"
    /\ lastOp.kind = "followup"
    /\ TestsPassed(lastOp.resp.body) = 4
    /\ chatHistory[Len(chatHistory)] = Msg("agent", Str("Found it"))
    /\ recommendations.present
    /\ recommendations.products = Arr(<<"p1">>)

\* this step settles a turn with a status-success reply that has a products
\* array
SuccessReplySettles ==
    /\ TurnSettles
    /\ ~TransportFails(lastOp'.resp)
    /\ lastOp'.resp.body.t = "object"
    /\ lastOp'.resp.body.status = Str("success")
    /\ lastOp'.resp.body.products.t = "array"

\* C10 (as amended): for a status-success reply with a products array the
\* appended agent message is reply.response when that is non-empty, and
\* otherwise a fallback text fixed for the kind of turn ("Here are your
\* product recommendations!" on the initial turn, "Here are your updated
\* recommendations!" on a follow-up); the stored products become
\* reply.products.
C10_SuccessReplyByTurnKind ==
    [][ SuccessReplySettles
            => /\ chatHistory' = Append(chatHistory,
                      Msg("agent", Or(lastOp'.resp.body.response,
                                      Str(FallbackText(lastOp'.kind)))))
               /\ recommendations'.present
               /\ recommendations'.products = lastOp'.resp.body.products ]_vars

\* a follow-up reply without a response text has replaced the stored products
C10_Witness ==
    /\ lastOp.op = "settle"
    /\ lastOp.kind = "followup"
    /\ lastOp.resp.body.status = Str("success")
    /\ lastOp.resp.body.response = Undef
    /\ chatHistory[Len(chatHistory)] =
           Msg("agent", Str("Here are your updated recommendations!"))
    /\ recommendations.products = lastOp.resp.body.products

\* C10 as stated: on every turn the fallback is the one text "Here are your
\* product recommendations!".
C10_OneFallbackText ==
    [][ SuccessReplySettles
            => /\ chatHistory' = Append(chatHistory,
                      Msg("agent", Or(lastOp'.resp.body.response,
                                      Str("Here are your product recommendations!"))))
               /\ recommendations'.present
               /\ recommendations'.products = lastOp'.resp.body.products ]_vars

\* this step settles a turn with a legacy reply: a truthy
\* recommendations_ready flag and a products array, the status not "success"
LegacyReplySettles ==
    /\ TurnSettles
    /\ ~TransportFails(lastOp'.resp)
    /\ lastOp'.resp.body.t = "object"
    /\ lastOp'.resp.body.status # Str("success")
    /\ Truthy(lastOp'.resp.body.recommendations_ready)
    /\ lastOp'.resp.body.products.t = "array"

\* C11: for a legacy reply (truthy recommendations_ready, a products array,
\* not a status-success reply) the turn appends one agent message, which is
\* reply.message when that is present and non-empty and otherwise the
\* fallback text of the turn, and the stored products become reply.products.
C11_LegacyReplyStored ==
    [][ LegacyReplySettles
            => /\ chatHistory' = Append(chatHistory,
                      Msg("agent", Or(lastOp'.resp.body.message,
                                      Str(FallbackText(lastOp'.kind)))))
               /\ recommendations'.present
               /\ recommendations'.products = lastOp'.resp.body.products ]_vars

\* the initial turn was answered by {recommendations_ready: true, products}
\* without message or summary, although with a response text
C11_Witness ==
    /\ lastOp.op = "settle"
    /\ lastOp.kind = "initial"
    /\ lastOp.resp.body.status = Undef
    /\ lastOp.resp.body.recommendations_ready = Bool("true")
    /\ lastOp.resp.body.message = Undef
    /\ lastOp.resp.body.response = Str("Found it")
    /\ chatHistory = <<Msg("user", Str("tv")),
                       Msg("agent", Str("Here are your product recommendations!"))>>
    /\ recommendations.products = Arr(<<"p1">>)

\* this step settles a turn with a normalized upstream error: an object
\* reply with a non-empty error field that passes no earlier test
ErrorReplySettles ==
    /\ TurnSettles
    /\ ~TransportFails(lastOp'.resp)
    /\ FirstMatch(lastOp'.resp.body) = "error"

\* C12: an object reply over a working transport whose error field is set
\* and that matches no earlier dialect appends one message with the content
\* "Sorry, I encountered an error: " followed by reply.error, keeps the
\* product set and leaves the session-level error flag as it was.
C12_ErrorReplyNormalized ==
    [][ ErrorReplySettles
            => /\ Len(chatHistory') = Len(chatHistory) + 1
               /\ SubSeq(chatHistory', 1, Len(chatHistory)) = chatHistory
               /\ Appended = Str("Sorry, I encountered an error: "
                                   \o lastOp'.resp.body.error.s)
               /\ recommendations' = recommendations
               /\ error' = error ]_vars

\* the initial turn was answered by {error: "rate limited"}
C12_Witness ==
    /\ lastOp.op = "settle"
    /\ lastOp.kind = "initial"
    /\ lastOp.resp.ok
    /\ lastOp.resp.body.error = Str("rate limited")
    /\ lastOp.resp.body.status = Undef
    /\ lastOp.resp.body.response = Undef
    /\ Len(chatHistory) = 2
    /\ chatHistory[2].content = Str("Sorry, I encountered an error: rate limited")
    /\ recommendations = NoRecs
    /\ error = Null

\* C13: a normalized upstream error is appended to the log as a message of
\* role error, not as an agent message.
C13_ErrorReplyHasErrorRole ==
    [][ ErrorReplySettles
            => chatHistory'[Len(chatHistory')].type = "error" ]_vars

\* C14: every agent and every error message of the log has a non-empty
\* text as content, whatever the backend replied on whatever turn.
C14_ContentNeverEmpty ==
    \A i \in 1..Len(chatHistory) :
        chatHistory[i].type \in {"agent", "error"}
            => /\ chatHistory[i].content.t = "string"
               /\ chatHistory[i].content.s # ""

\* C15: a reply over a working transport that matches none of the dialects
\* (not a string, and no object test passes) appends one agent message whose
\* content is the serialized reply, keeps the product set and leaves the
\* error flag as it was.
C15_UnrecognizedIsSerialized ==
    [][ (/\ TurnSettles
         /\ ~TransportFails(lastOp'.resp)
         /\ FirstMatch(lastOp'.resp.body) = "unrecognized")
            => /\ chatHistory' = Append(chatHistory,
                      Msg("agent", Str(Stringify(lastOp'.resp.body))))
               /\ recommendations' = recommendations
               /\ error' = error ]_vars

\* no two items of the list have the same url
DistinctUrls(list) ==
    \A i, j \in 1..Len(list) : list[i].url = list[j].url => i = j

\* C16: adding a product whose url an item of the stored list already has
\* changes neither the list nor the badge and dispatches no
\* 'savedItemsChanged'; and, the store starting empty, no two items of the
\* stored list ever share a url.
C16_AddIsNoOpOnSameUrl ==
    /\ [] DistinctUrls(savedItems)
    /\ [][ (/\ savedOp'.op = "add"
            /\ \E i \in 1..Len(savedItems) : savedItems[i].url = savedOp'.url)
               => /\ savedItems' = savedItems
                  /\ ~savedOp'.notified
                  /\ UNCHANGED <<savedItemsCount, storagePending>> ]_vars

\* the refurbished TV was added while the TV, at the same url, and the
\* soundbar were stored: nothing was added
C16_Witness ==
    /\ savedOp.op = "add"
    /\ savedOp.name = "TV, refurbished"
    /\ ~savedOp.notified
    /\ Len(savedItems) = 2
    /\ \E i \in 1..2 : savedItems[i] = [url |-> "u1", name |-> "TV"]

\* what a call in flight carries to the backend
Payload(c) == [message |-> c.message, context |-> c.context]

\* the payloads of the calls in flight
Payloads(q) == [i \in 1..Len(q) |-> Payload(q[i])]

\* the products of the stored product set, the empty list when none is stored
StoredProducts == IF recommendations.present THEN recommendations.products ELSE Arr(<<>>)

\* C17: the current_products of the follow-up call in flight is the stored
\* product set as the previous turn left it (the empty list when none has
\* been stored), and no step changes the payload of a call already in
\* flight: a step only adds a call at the end or takes one call out.
C17_CurrentProductsAsOfLastTurn ==
    /\ [](\A i \in LiveCalls :
             inflight[i].kind = "followup"
                 => inflight[i].context.current_products = StoredProducts)
    /\ [][ \/ Payloads(inflight') = Payloads(inflight)
           \/ /\ Len(inflight') = Len(inflight) + 1
              /\ SubSeq(Payloads(inflight'), 1, Len(inflight)) = Payloads(inflight)
           \/ \E i \in 1..Len(inflight) :
                 Payloads(inflight') = RemoveAt(Payloads(inflight), i) ]_vars

\* the third turn is in flight with the products the first turn stored,
\* the second turn having brought none
C17_Witness ==
    /\ Len(chatHistory) = 5
    /\ chatHistory[4] = Msg("agent", Str("hello"))
    /\ recommendations.present
    /\ \E i \in LiveCalls :
          /\ inflight[i].kind = "followup"
          /\ inflight[i].context.current_products = Arr(<<"p1">>)

\* C18: the context of the first call of a session carries no earlier
\* chat history and no earlier products.
C18_FirstContextEmpty ==
    \A i \in 1..Len(inflight) :
        inflight[i].kind = "initial"
            => /\ inflight[i].context.chat_history = <<>>
               /\ inflight[i].context.current_products = Arr(<<>>)

\* the first call of a second session is in flight, the call of the first
\* session has settled
C18_Witness ==
    /\ lastOp.op = "handleSearch"
    /\ calls = 2
    /\ Len(inflight) = 1
    /\ inflight[1].kind = "initial"
    /\ inflight[1].live
    /\ inflight[1].context.original_query = "tv"

\* C19: the step that starts a session with a non-empty query leaves the
\* log with exactly one user message carrying that query, no product set, no
\* error flag and the busy flag set, the first call being dispatched in the
\* same step.
C19_SessionStart ==
    [][ (handleSearch /\ ~Blank(userQuery))
            => /\ initialQuery' # ""
               /\ chatHistory' = <<Msg("user", Str(initialQuery'))>>
               /\ recommendations' = NoRecs
               /\ error' = Null
               /\ isProcessing'
               /\ calls' = calls + 1
               /\ inflight'[Len(inflight')].message = initialQuery' ]_vars

\* a session has just been started while a call of an abandoned session is
\* still in flight
C19_Witness ==
    /\ lastOp.op = "handleSearch"
    /\ page = "chat"
    /\ chatHistory = <<Msg("user", Str("tv"))>>
    /\ isProcessing
    /\ Len(inflight) = 2
    /\ ~inflight[1].live
    /\ inflight[2].live

\* C20: a step that dispatches a call leaves the session busy; the
\* settlement of the call of the session finds it busy and clears the flag,
\* whatever the response; and while the session is busy every other step,
\* short of leaving the page, keeps it busy and begins no turn.
C20_BusyUntilSettled ==
    [][ /\ calls' = calls + 1 => isProcessing'
        /\ TurnSettles => (isProcessing /\ ~isProcessing')
        /\ (isProcessing /\ ~TurnSettles /\ lastOp'.op # "handleBackToHome")
              => (isProcessing' /\ UNCHANGED <<chatHistory, calls>>) ]_vars

\* a follow-up that failed in transport has settled, after an initial turn
\* that ended with a normalized error
C20_Witness ==
    /\ lastOp.op = "settle"
    /\ lastOp.kind = "followup"
    /\ TransportFails(lastOp.resp)
    /\ ~isProcessing
    /\ Len(chatHistory) = 4
    /\ chatHistory[2] = Msg("agent", Str("Sorry, I encountered an error: rate limited"))
    /\ chatHistory[4].type = "error"

\* a is a prefix of b
IsPrefix(a, b) == Len(a) <= Len(b) /\ SubSeq(b, 1, Len(a)) = a

\* C21: within a session the log only grows at its end: every step that
\* does not leave the chat page keeps the log it found as a prefix of the
\* log it leaves, so no message is changed or taken out, and the log is
\* empty again only when the page is left and a session starts anew.
C21_LogAppendOnly ==
    [][ lastOp'.op # "handleBackToHome" => IsPrefix(chatHistory, chatHistory') ]_vars

\* three turns have settled in one session, the first with a failure
C21_Witness ==
    /\ Len(chatHistory) = 6
    /\ ~isProcessing
    /\ chatHistory[2].type = "error"
    /\ chatHistory[1] = Msg("user", Str("tv"))

\* this step is a submission that was accepted: it put a user message in
\* the log
Accepted ==
    /\ lastOp'.op \in {"handleSearch", "handleSendMessage"}
    /\ Len(chatHistory') = Len(chatHistory) + 1
    /\ chatHistory'[Len(chatHistory')].type = "user"

\* C22: a call is dispatched by an accepted submission and by nothing else,
\* one call for each, and the settlement of a call, failed or not, takes
\* that call out of flight and dispatches none.
C22_NoAutomaticRetry ==
    [][ /\ Accepted <=> calls' = calls + 1
        /\ Accepted <=> Len(inflight') = Len(inflight) + 1
        /\ calls' \in {calls, calls + 1}
        /\ lastOp'.op = "settle"
              => calls' = calls /\ Len(inflight') = Len(inflight) - 1 ]_vars

\* a follow-up has failed and nothing is in flight: two submissions, two calls
C22_Witness ==
    /\ lastOp.op = "settle"
    /\ lastOp.kind = "followup"
    /\ TransportFails(lastOp.resp)
    /\ calls = 2
    /\ inflight = <<>>
    /\ Len(chatHistory) = 4

\* C23: a response whose status is not 2xx is a transport failure whatever
\* its body: the turn appends an error message and keeps the product set,
\* and the body is not classified.
C23_NonOkIsTransportFailure ==
    [][ (TurnSettles /\ ~lastOp'.resp.rejected /\ ~lastOp'.resp.ok)
            => /\ chatHistory' = Append(chatHistory,
                      Msg("error", Str(FailureText(lastOp'.kind))))
               /\ recommendations' = recommendations ]_vars

\* the initial turn got a non-2xx response whose body is a status-success
\* reply with products
C23_Witness ==
    /\ lastOp.op = "settle"
    /\ lastOp.kind = "initial"
    /\ ~lastOp.resp.ok
    /\ lastOp.resp.body.status = Str("success")
    /\ lastOp.resp.body.products = Arr(<<"p1">>)
    /\ Len(chatHistory) = 2
    /\ chatHistory[2].type = "error"
    /\ recommendations = NoRecs

\* C24: a chat page opened without a query dispatches no call, logs no
\* message and is never busy, then and as long as it is shown, and takes no
\* follow-up.
C24_NoQueryNoNetwork ==
    /\ []((page = "chat" /\ initialQuery = "")
            => /\ chatHistory = <<>>
               /\ ~isProcessing
               /\ LiveCalls = {}
               /\ ~ChatInterfaceShown)
    /\ [][ (lastOp'.op = "openChat" \/ (page = "chat" /\ initialQuery = ""))
              => UNCHANGED <<calls, chatHistory, isProcessing>> ]_vars

\* the chat page is shown without a query, after a session whose call is
\* still in flight
C24_Witness ==
    /\ lastOp.op = "openChat"
    /\ page = "chat"
    /\ initialQuery = ""
    /\ calls = 1
    /\ Len(inflight) = 1

\* C25: in a tab that has no 'storage' event of another tab waiting - so
\* in particular after operations of the tab itself, whose notification is
\* handled before the operation returns - the badge shows the length of the
\* stored list; every add that changes the list and every remove
\* dispatches 'savedItemsChanged'.
C25_BadgeShowsStoredLength ==
    /\ [](\A t \in Tabs : ~storagePending[t] => savedItemsCount[t] = Len(savedItems))
    /\ [][ /\ savedOp'.op = "remove" => savedOp'.notified
           /\ (savedOp'.op = "add" /\ savedItems' # savedItems) => savedOp'.notified ]_vars

\* an item was removed in this tab, one of two that the tab had stored
C25_Witness ==
    /\ savedOp.op = "remove"
    /\ savedOp.tab = "this"
    /\ savedOp.notified
    /\ Len(savedItems) = 1
    /\ savedItemsCount["this"] = 1
    /\ ~storagePending["this"]
    /\ ~storagePending["other"]

\* C26: a remove leaves the stored list as it was just before the call
\* without the items of the url, the others kept in order, also when
\* another tab has added items since the view loaded its list.
C26_RemoveKeepsOtherItems ==
    [][ savedOp'.op = "remove"
            => savedItems' = WithoutUrl(savedItems, savedOp'.url) ]_vars

\* C27: the settlement of a call that an abandoned session dispatched
\* changes neither the log, the product set, the busy flag nor the error
\* flag, whatever session is shown by then.
C27_SessionsIsolated ==
    [][ (lastOp'.op = "settle" /\ ~lastOp'.live) => UNCHANGED chatVars ]_vars

\* the call of an abandoned session has settled while a later session
\* awaits its first reply
C27_Witness ==
    /\ lastOp.op = "settle"
    /\ ~lastOp.live
    /\ page = "chat"
    /\ calls = 2
    /\ isProcessing
    /\ chatHistory = <<Msg("user", Str("tv"))>>
    /\ Len(inflight) = 1
    /\ inflight[1].live

\* C28: the stored product set is none or has an array as its products, and
\* the current_products of every call is an array.
C28_ProductsAlwaysArray ==
    /\ recommendations.present => recommendations.products.t = "array"
    /\ \A i \in 1..Len(inflight) :
          inflight[i].context.current_products.t = "array"

\* C30: a status-success reply whose products array is empty is stored as
\* any other: after the turn the stored products are the empty array,
\* whatever was stored before.
C30_EmptyArrayReplaces ==
    [][ (SuccessReplySettles /\ lastOp'.resp.body.products = Arr(<<>>))
            => /\ recommendations'.present
               /\ recommendations'.products = Arr(<<>>) ]_vars

\* a follow-up was answered by a status-success reply with no products,
\* and the next follow-up is in flight with an empty current_products
C30_Witness ==
    /\ Len(chatHistory) = 5
    /\ recommendations.present
    /\ recommendations.products = Arr(<<>>)
    /\ chatHistory[2] = Msg("agent", Str("Found it"))
    /\ \E i \in LiveCalls : inflight[i].context.current_products = Arr(<<>>)

\* C29: once the initial search of a mounted ChatPage has been dispatched, a
\* re-run of the initialization effect, with the same query or another,
\* dispatches no call and leaves the log, the product set and the flags
\* alone; an initial call is dispatched only by the run of the effect that
\* sets the initialized ref, and the ref stays set until the page is left.
C29_InitialSearchOnce ==
    [][ /\ (lastOp'.op = "effect" /\ initialized)
              => UNCHANGED <<calls, inflight, chatVars>>
        /\ (Len(inflight') = Len(inflight) + 1
             /\ inflight'[Len(inflight')].kind = "initial")
              => (~initialized /\ initialized')
        /\ (initialized /\ lastOp'.op # "handleBackToHome") => initialized' ]_vars

\* the effect has run again with another query after the first turn stored
\* products
C29_Witness ==
    /\ lastOp.op = "effect"
    /\ initialQuery = "radio"
    /\ initialized
    /\ calls = 1
    /\ Len(chatHistory) = 2
    /\ chatHistory[1] = Msg("user", Str("tv"))
    /\ recommendations.present

====
